---- MODULE Spec2Model ----
(***************************************************************************)
(* Model of src/CNER.py: the Aho-Corasick automaton (ACAutomaton) and the  *)
(* dictionary recogniser built on it (ChineseNER).                         *)
(*                                                                         *)
(* A trie node is a Python dict.  It is modelled by its path from the root *)
(* (a sequence of characters); the dict itself is the ordered sequence of  *)
(* its keys (Python dicts iterate in insertion order).  The keys of a node *)
(* are characters, the end-of-word key "#" and the key "fail".  The value  *)
(* under a character key c of node n is the node n \o <<c>>, except that   *)
(* the value under "#" is the string "#" (StrMarker) when add_word stored  *)
(* the end-of-word marker there.  The value under "fail" is fail[n].       *)
(***************************************************************************)
EXTENDS Integers, Sequences, FiniteSets, TLC

\* ---- bounds of the model ----
MaxLen == 2        \* longest pattern fed to add_word
MaxWords == 2      \* number of add_word calls in one run
MaxText == 3       \* longest text fed to search / recognize_entities

\* ---- input sets ----
Alphabet == {"a", "b", "#"}
Labels == <<"LOC", "PER", "ORG">>
end_of_word == "#"
FAIL == "fail"
UNK == "UNK"

RECURSIVE StringsUpTo(_)
StringsUpTo(n) ==
    IF n = 0 THEN {<<>>}
    ELSE LET S == StringsUpTo(n - 1)
         IN  S \cup {Append(s, c) : s \in {t \in S : Len(t) = n - 1}, c \in Alphabet}

Words == StringsUpTo(MaxLen)
Texts == StringsUpTo(MaxText)

\* ---- the dict graph hanging off self.root ----
RootNode == <<>>
StrMarker == <<"'#'">>          \* the str object "#" stored as a dict value
EmptyGraph == [keys |-> (RootNode :> <<>>), fail |-> <<>>]

Nodes(G) == DOMAIN G.keys
IsNode(G, r) == r \in Nodes(G)

\* `key in node`; on the str "#", `"#" in "#"` is the substring test
HasKey(G, r, k) ==
    IF r = StrMarker THEN k = end_of_word
    ELSE \E i \in 1..Len(G.keys[r]) : G.keys[r][i] = k

\* node[key] for a key the node has
Value(G, n, k) ==
    IF k = FAIL THEN G.fail[n]
    ELSE IF k = end_of_word /\ Append(n, k) \notin Nodes(G) THEN StrMarker
    ELSE Append(n, k)

\* node.get('fail', self.root): the value returned ...
GetFail(G, n) == IF HasKey(G, n, FAIL) THEN G.fail[n] ELSE RootNode

\* node['fail'] = f
SetFail(G, n, f) ==
    [G EXCEPT !.fail = (n :> f) @@ @,
              !.keys[n] = IF HasKey(G, n, FAIL) THEN @ ELSE Append(@, FAIL)]

\* a lookup that stores its default, as node.setdefault('fail', self.root) would
AfterGet_setdefault(G, n) ==
    IF IsNode(G, n) /\ ~HasKey(G, n, FAIL) THEN SetFail(G, n, RootNode) ELSE G

\* ... and the dict graph after the call: dict.get stores nothing
AfterGet(G, n) == G

\* `x != self.root`.  Python compares dicts by value; the root never has a
\* "fail" key nor is any of its finite subtrees its equal, so the comparison
\* with the root decides identity.  The str "#" is never equal to a dict.
NeRoot(r) == r # RootNode

IsPrefix(p, q) == Len(p) <= Len(q) /\ SubSeq(q, 1, Len(p)) = p

\* ---- ACAutomaton.add_word ----
\* node[self.end_of_word] = self.end_of_word : an existing "#" key keeps its
\* place and its old value (a child dict with its subtree) is dropped.
SetMarker(G, n) ==
    IF HasKey(G, n, end_of_word)
    THEN LET dead == {m \in Nodes(G) : IsPrefix(Append(n, end_of_word), m)}
             live == Nodes(G) \ dead
         IN  [keys |-> [m \in live |-> G.keys[m]],
              fail |-> [m \in (DOMAIN G.fail) \ dead |-> G.fail[m]]]
    ELSE [G EXCEPT !.keys[n] = Append(@, end_of_word)]

\* node.setdefault(char, {}) on a dict
SetDefault(G, n, c) ==
    IF HasKey(G, n, c) THEN G
    ELSE [G EXCEPT !.keys = (Append(n, c) :> <<>>) @@ [@ EXCEPT ![n] = Append(@, c)]]

RECURSIVE AddWalk(_, _, _, _)
AddWalk(G, node, word, i) ==
    IF i > Len(word)
    THEN IF node = StrMarker
         THEN [g |-> G, err |-> "TypeError"]          \* str item assignment
         ELSE [g |-> SetMarker(G, node), err |-> "none"]
    ELSE IF node = StrMarker
         THEN [g |-> G, err |-> "AttributeError"]     \* str has no setdefault
         ELSE LET G1 == SetDefault(G, node, word[i])
              IN  AddWalk(G1, Value(G1, node, word[i]), word, i + 1)

add_word(G, word) == AddWalk(G, RootNode, word, 1)

\* ---- ACAutomaton.build_fail ----
\* the while loop of lines 44-45
RECURSIVE FailWalk(_, _, _)
FailWalk(G, fail_node, key) ==
    IF NeRoot(fail_node) /\ ~HasKey(G, fail_node, key)
    THEN FailWalk(AfterGet(G, fail_node), GetFail(G, fail_node), key)
    ELSE [g |-> G, node |-> fail_node]

\* lines 25-28: the children of the root
RECURSIVE RootKeys(_, _, _)
RootKeys(G, queue, i) ==
    IF i > Len(G.keys[RootNode]) THEN [g |-> G, queue |-> queue]
    ELSE LET key == G.keys[RootNode][i]
         IN  IF key # end_of_word
             THEN RootKeys(SetFail(G, Append(RootNode, key), RootNode),
                           Append(queue, Append(RootNode, key)), i + 1)
             ELSE RootKeys(G, queue, i + 1)

\* lines 34-52: the keys of one dequeued node
RECURSIVE NodeKeys(_, _, _, _)
NodeKeys(G, queue, current_node, i) ==
    IF i > Len(G.keys[current_node]) THEN [g |-> G, queue |-> queue]
    ELSE LET key == G.keys[current_node][i]
         IN  IF key = end_of_word \/ key = FAIL
             THEN NodeKeys(G, queue, current_node, i + 1)
             ELSE LET child_node == Value(G, current_node, key)
                      w == FailWalk(G, G.fail[current_node], key)
                      fail_node == w.node
                      target == IF HasKey(w.g, fail_node, key)
                                THEN Value(w.g, fail_node, key)
                                ELSE RootNode
                  IN  NodeKeys(SetFail(w.g, child_node, target),
                               Append(queue, child_node), current_node, i + 1)

\* lines 31-52: the level-order loop
RECURSIVE FailLoop(_, _)
FailLoop(G, queue) ==
    IF queue = <<>> THEN G
    ELSE LET r == NodeKeys(G, Tail(queue), Head(queue), 1)
         IN  FailLoop(r.g, r.queue)

build_fail(G) ==
    LET r == RootKeys(G, <<>>, 1)
    IN  FailLoop(r.g, r.queue)

\* ---- ACAutomaton._get_word_length ----
RECURSIVE get_word_length(_, _, _)
get_word_length(G, node, length) ==
    IF NeRoot(node) /\ ~HasKey(G, node, end_of_word)
    THEN get_word_length(AfterGet(G, node), GetFail(G, node), length + 1)
    ELSE [g |-> G, length |-> length]

\* ---- ACAutomaton.search ----
Min(x, y) == IF x < y THEN x ELSE y
Max(x, y) == IF x > y THEN x ELSE y

\* text[s:e] with Python's clamping of the slice bounds (positions 0-based)
Slice(text, s, e) ==
    LET n == Len(text)
        lo == IF s < 0 THEN Max(s + n, 0) ELSE Min(s, n)
        hi == IF e < 0 THEN Max(e + n, 0) ELSE Min(e, n)
    IN  SubSeq(text, lo + 1, hi)

\* lines 61-62: follow failure references until the character has an edge
RECURSIVE Descend(_, _, _)
Descend(G, current_node, char) ==
    IF NeRoot(current_node) /\ ~HasKey(G, current_node, char)
    THEN Descend(AfterGet(G, current_node), GetFail(G, current_node), char)
    ELSE [g |-> G, node |-> current_node]

\* lines 70-77: report along the failure chain; i is the 0-based position
RECURSIVE Report(_, _, _, _, _)
Report(G, temp, text, i, results) ==
    IF ~NeRoot(temp) THEN [g |-> G, results |-> results, err |-> "none"]
    ELSE LET wl == get_word_length(G, temp, 0)
             start_pos == i - wl.length + 1
             hit == HasKey(G, temp, end_of_word)
             out == IF hit
                    THEN Append(results, <<start_pos, i + 1, Slice(text, start_pos, i + 1)>>)
                    ELSE results
             G1 == IF hit THEN wl.g ELSE G
         IN  IF temp = StrMarker
             THEN [g |-> G1, results |-> out, err |-> "AttributeError"]   \* str has no get
             ELSE Report(AfterGet(G1, temp), GetFail(G1, temp), text, i, out)

\* lines 59-77: the loop over the text; trace is the cursor after each character
RECURSIVE SearchLoop(_, _, _, _, _, _)
SearchLoop(G, text, j, current_node, results, trace) ==
    IF j > Len(text)
    THEN [g |-> G, results |-> results, err |-> "none", trace |-> trace]
    ELSE LET char == text[j]
             d == Descend(G, current_node, char)
         IN  IF HasKey(d.g, d.node, char)
             THEN LET next == Value(d.g, d.node, char)
                      r == Report(d.g, next, text, j - 1, results)
                  IN  IF r.err # "none"
                      THEN [g |-> r.g, results |-> r.results, err |-> r.err,
                            trace |-> Append(trace, next)]
                      ELSE SearchLoop(r.g, text, j + 1, next, r.results, Append(trace, next))
             ELSE SearchLoop(d.g, text, j + 1, d.node, results, Append(trace, d.node))

search(G, text) == SearchLoop(G, text, 1, RootNode, <<>>, <<>>)

\* ---- ChineseNER.recognize_entities ----
\* sort key of line 154: (start, -(end - start)), compared lexicographically
KeyLess(x, y) ==
    \/ x[1] < y[1]
    \/ x[1] = y[1] /\ (x[2] - x[1]) > (y[2] - y[1])

\* list.sort is stable: an element goes after every element not greater than it
RECURSIVE InsertSorted(_, _)
InsertSorted(s, x) ==
    IF s = <<>> THEN <<x>>
    ELSE IF KeyLess(x, s[Len(s)]) THEN Append(InsertSorted(SubSeq(s, 1, Len(s) - 1), x), s[Len(s)])
    ELSE Append(s, x)

RECURSIVE SortMatches(_, _, _)
SortMatches(matches, i, acc) ==
    IF i > Len(matches) THEN acc
    ELSE SortMatches(matches, i + 1, InsertSorted(acc, matches[i]))

\* entity_type_mapping.get(entity_text, "UNK")
TypeOf(mapping, entity_text) ==
    IF entity_text \in DOMAIN mapping THEN mapping[entity_text] ELSE UNK

\* lines 156-168: the sweep with last_end
RECURSIVE Sweep(_, _, _, _, _)
Sweep(mapping, matches, i, last_end, entities) ==
    IF i > Len(matches) THEN entities
    ELSE LET m == matches[i]
         IN  IF m[1] >= last_end
             THEN Sweep(mapping, matches, i + 1, m[2],
                        Append(entities, [text |-> m[3], start |-> m[1], end |-> m[2],
                                          type |-> TypeOf(mapping, m[3])]))
             ELSE Sweep(mapping, matches, i + 1, last_end, entities)

resolve(mapping, matches) == Sweep(mapping, SortMatches(matches, 1, <<>>), 1, -1, <<>>)

\* ---- ChineseNER.text_to_bio ----
OTag == <<"O">>
BTag(t) == <<"B", t>>
ITag(t) == <<"I", t>>

TagEntity(tags, entity) ==
    LET n == Len(tags)
        withB == IF entity.start < n
                 THEN [tags EXCEPT ![entity.start + 1] = BTag(entity.type)]
                 ELSE tags
    IN  [p \in 1..n |->
            IF p - 1 >= entity.start + 1 /\ p - 1 < Min(entity.end, n)
            THEN ITag(entity.type) ELSE withB[p]]

RECURSIVE TagAll(_, _, _)
TagAll(tags, entities, i) ==
    IF i > Len(entities) THEN tags
    ELSE TagAll(TagEntity(tags, entities[i]), entities, i + 1)

bio_tags_of(text, entities) == TagAll([p \in 1..Len(text) |-> OTag], entities, 1)

text_to_bio(text, entities) ==
    LET tags == bio_tags_of(text, entities)
    IN  [p \in 1..Len(text) |-> <<text[p], tags[p]>>]

\* ---- state ----
VARIABLES
    root,                  \* ACAutomaton.root: the dict graph
    entity_type_mapping,   \* ChineseNER.entity_type_mapping
    hist,                  \* history: the add_word / build_fail calls made so far
    last,                  \* the call made last: [op, arg]
    err,                   \* "none", or the exception that ended the run
    matches,               \* list returned by the last search
    cursors,               \* history: current_node after each character of that search
    entities,              \* list returned by the last recognize_entities
    bio                    \* list returned by the last text_to_bio

vars == <<root, entity_type_mapping, hist, last, err, matches, cursors, entities, bio>>

NumOps(h, op) == Cardinality({i \in 1..Len(h) : h[i].op = op})
Rank(l) == CHOOSE i \in 1..Len(Labels) : Labels[i] = l
NoLabel == "-"

\* build_fail has run and no add_word has been made since
Compiled == hist # <<>> /\ hist[Len(hist)].op = "build_fail"

Init ==
    /\ root = EmptyGraph
    /\ entity_type_mapping = <<>>
    /\ hist = <<>>
    /\ last = [op |-> "__init__", arg |-> <<>>]
    /\ err = "none"
    /\ matches = <<>>
    /\ cursors = <<>>
    /\ entities = <<>>
    /\ bio = <<>>

NoResults ==
    /\ matches' = <<>>
    /\ cursors' = <<>>
    /\ entities' = <<>>
    /\ bio' = <<>>

\* ---- the ACAutomaton class under arbitrary use of its methods ----
AddWord(word) ==
    /\ err = "none"
    /\ NumOps(hist, "add_word") < MaxWords
    /\ \E r \in {add_word(root, word)} :
           /\ root' = r.g
           /\ err' = r.err
    /\ hist' = Append(hist, [op |-> "add_word", word |-> word, label |-> NoLabel])
    /\ last' = [op |-> "add_word", arg |-> word]
    /\ UNCHANGED entity_type_mapping
    /\ NoResults

\* a second build_fail in a row is not modelled
BuildFail ==
    /\ err = "none"
    /\ ~Compiled
    /\ root' = build_fail(root)
    /\ hist' = Append(hist, [op |-> "build_fail", word |-> <<>>, label |-> NoLabel])
    /\ last' = [op |-> "build_fail", arg |-> <<>>]
    /\ UNCHANGED <<entity_type_mapping, err>>
    /\ NoResults

Search(text) ==
    /\ err = "none"
    /\ \E r \in {search(root, text)} :
           /\ root' = r.g
           /\ err' = r.err
           /\ matches' = r.results
           /\ cursors' = r.trace
    /\ last' = [op |-> "search", arg |-> text]
    /\ entities' = <<>>
    /\ bio' = <<>>
    /\ UNCHANGED <<entity_type_mapping, hist>>

NextAC ==
    \/ \E word \in Words : AddWord(word)
    \/ BuildFail
    \/ \E text \in Texts : Search(text)

SpecAC == Init /\ [][NextAC]_vars

\* ---- the ChineseNER object: constructed, then used on sentences ----
\* one iteration of the loops of build_ac_automaton (lines 133-143): the
\* dictionaries hold stripped non-empty lines (lines 111, 118, 125), each
\* dictionary is a set, and the loops run LOC, PER, ORG in this order
BuildAcAutomatonStep(entity, label) ==
    /\ err = "none"
    /\ NumOps(hist, "build_fail") = 0
    /\ NumOps(hist, "add_word") < MaxWords
    /\ entity # <<>>
    /\ \A i \in 1..Len(hist) :
          /\ Rank(hist[i].label) <= Rank(label)
          /\ ~(hist[i].label = label /\ hist[i].word = entity)
    /\ \E r \in {add_word(root, entity)} :
           /\ root' = r.g
           /\ err' = r.err
           /\ entity_type_mapping' =
                 IF r.err = "none"
                 THEN (entity :> label) @@ entity_type_mapping
                 ELSE entity_type_mapping
    /\ hist' = Append(hist, [op |-> "add_word", word |-> entity, label |-> label])
    /\ last' = [op |-> "build_ac_automaton", arg |-> entity]
    /\ NoResults

\* line 145: the loops are over, build_fail ends the construction
BuildAcAutomatonFinish ==
    /\ err = "none"
    /\ NumOps(hist, "build_fail") = 0
    /\ root' = build_fail(root)
    /\ hist' = Append(hist, [op |-> "build_fail", word |-> <<>>, label |-> NoLabel])
    /\ last' = [op |-> "build_ac_automaton", arg |-> <<>>]
    /\ UNCHANGED <<entity_type_mapping, err>>
    /\ NoResults

RecognizeEntities(text) ==
    /\ err = "none"
    /\ Compiled
    /\ \E r \in {search(root, text)} :
           /\ root' = r.g
           /\ err' = r.err
           /\ matches' = r.results
           /\ cursors' = r.trace
           /\ entities' = IF r.err = "none"
                          THEN resolve(entity_type_mapping, r.results)
                          ELSE <<>>
    /\ last' = [op |-> "recognize_entities", arg |-> text]
    /\ bio' = <<>>
    /\ UNCHANGED <<entity_type_mapping, hist>>

\* main, line 277: the entities of a sentence are tagged against that sentence
TextToBio ==
    /\ err = "none"
    /\ last.op = "recognize_entities"
    /\ bio' = text_to_bio(last.arg, entities)
    /\ last' = [op |-> "text_to_bio", arg |-> last.arg]
    /\ UNCHANGED <<root, entity_type_mapping, hist, err, matches, cursors, entities>>

Next ==
    \/ \E entity \in Words, i \in 1..Len(Labels) : BuildAcAutomatonStep(entity, Labels[i])
    \/ BuildAcAutomatonFinish
    \/ \E text \in Texts : RecognizeEntities(text)
    \/ TextToBio

Spec == Init /\ [][Next]_vars

\* ---- definitions used to state the properties ----
AddIndexes == {i \in 1..Len(hist) : hist[i].op = "add_word"}
Patterns == {hist[i].word : i \in AddIndexes}
Uncompiled == hist # <<>> /\ hist[Len(hist)].op = "add_word"

\* the automaton the recorded calls build from scratch
RECURSIVE Replay(_, _, _)
Replay(G, h, i) ==
    IF i > Len(h) THEN [g |-> G, err |-> "none"]
    ELSE IF h[i].op = "build_fail" THEN Replay(build_fail(G), h, i + 1)
    ELSE LET r == add_word(G, h[i].word)
         IN  IF r.err # "none" THEN r ELSE Replay(r.g, h, i + 1)

FreshlyBuilt == Replay(EmptyGraph, hist, 1).g

\* what a ChineseNER built from the recorded calls in the order f answers on text
Outcome(f, text) ==
    LET h == [i \in 1..Len(hist) |-> IF i \in AddIndexes THEN hist[f[i]] ELSE hist[i]]
        b == Replay(EmptyGraph, h, 1)
        r == search(b.g, text)
    IN  IF b.err # "none" THEN [err |-> b.err, entities |-> <<>>]
        ELSE IF r.err # "none" THEN [err |-> r.err, entities |-> <<>>]
        ELSE [err |-> "none", entities |-> resolve(entity_type_mapping, r.results)]

\* the orders in which the same add_word calls can be made
Orders ==
    {f \in [1..Len(hist) -> 1..Len(hist)] :
        /\ \A i \in 1..Len(hist) : i \notin AddIndexes => f[i] = i
        /\ \A i \in AddIndexes : f[i] \in AddIndexes
        /\ \A i, j \in 1..Len(hist) : f[i] = f[j] => i = j}

DistinctPatterns == \A i, j \in AddIndexes : hist[i].word = hist[j].word => i = j

\* every occurrence of a pattern in the text, as a 0-based half-open span
Occurrences(text) ==
    {sp \in (0..Len(text)) \X (0..Len(text)) :
        sp[1] < sp[2] /\ SubSeq(text, sp[1] + 1, sp[2]) \in Patterns}

SetMin(S) == CHOOSE x \in S : \A y \in S : x <= y
SetMax(S) == CHOOSE x \in S : \A y \in S : x >= y

\* leftmost-longest selection over the occurrences
RECURSIVE LeftmostLongest(_, _, _)
LeftmostLongest(text, lastEnd, acc) ==
    LET cand == {sp \in Occurrences(text) : sp[1] >= lastEnd}
    IN  IF cand = {} THEN acc
        ELSE LET st == SetMin({sp[1] : sp \in cand})
                 en == SetMax({sp[2] : sp \in {c \in cand : c[1] = st}})
                 tx == SubSeq(text, st + 1, en)
             IN  LeftmostLongest(text, en,
                    Append(acc, [text |-> tx, start |-> st, end |-> en,
                                 type |-> TypeOf(entity_type_mapping, tx)]))

\* spans read back from a tag sequence: B opens, the following I of the same label extend
RECURSIVE SpanEnd(_, _, _)
SpanEnd(tags, p, t) ==
    IF p <= Len(tags) /\ tags[p] = ITag(t) THEN SpanEnd(tags, p + 1, t) ELSE p - 1

RECURSIVE Regroup(_, _, _)
Regroup(tags, p, acc) ==
    IF p > Len(tags) THEN acc
    ELSE IF tags[p][1] = "B"
         THEN Regroup(tags, p + 1, Append(acc, <<p - 1, SpanEnd(tags, p + 1, tags[p][2]), tags[p][2]>>))
         ELSE Regroup(tags, p + 1, acc)

\* the patterns are ordinary: none is empty, none holds the character "#"
MarkerFree == \A w \in Patterns : w # <<>> /\ \A i \in 1..Len(w) : w[i] # end_of_word

Triples(es) == [k \in 1..Len(es) |-> <<es[k].start, es[k].end, es[k].type>>]
Recognized == last.op = "recognize_entities" /\ err = "none" /\ MarkerFree

\* C1, C2, C3 and C6 are stated for dictionaries of ordinary patterns (MarkerFree).

\* C1: every entity returned by recognize_entities(T) has 0 <= start < end <= len(T),
\* its text is T[start:end], that text is a registered pattern, and its type is the
\* label registered for it.
C1_EntityIsRegisteredPattern ==
    Recognized =>
        \A k \in 1..Len(entities) :
            LET e == entities[k]
            IN  /\ 0 <= e.start /\ e.start < e.end /\ e.end <= Len(last.arg)
                /\ e.text = SubSeq(last.arg, e.start + 1, e.end)
                /\ e.text \in Patterns
                /\ e.text \in DOMAIN entity_type_mapping
                /\ e.type = entity_type_mapping[e.text]

\* C2: the entities returned by recognize_entities are ordered and non-overlapping
\* (end_i <= start_{i+1}) and no two of them are the same (start, end) span.
C2_OrderedDisjointSpans ==
    Recognized =>
        /\ \A k \in 1..(Len(entities) - 1) : entities[k].end <= entities[k + 1].start
        /\ \A k, l \in 1..Len(entities) :
              (entities[k].start = entities[l].start /\ entities[k].end = entities[l].end)
                 => k = l

\* C3: recognize_entities(T) is exactly the leftmost-longest selection over all
\* occurrences of the patterns in T.
C3_LeftmostLongest ==
    Recognized => entities = LeftmostLongest(last.arg, -1, <<>>)

\* C4: search on an automaton on which build_fail has not run since the last
\* add_word fails with an error; it never returns a result list.
C4_UncompiledSearchFails ==
    (last.op = "search" /\ Uncompiled /\ MarkerFree) => err # "none"

\* C5: the same textually distinct (pattern, label) pairs added in any other order
\* and then compiled give the same answer of recognize_entities on every text.
C5_InsertionOrderIrrelevant ==
    (last.op = "recognize_entities" /\ DistinctPatterns) =>
        \A f \in Orders : Outcome(f, last.arg) = [err |-> err, entities |-> entities]

\* C6: text_to_bio(T, recognize_entities(T)) has len(T) elements and re-grouping its
\* tags gives back the (start, end, type) triples of the entities, in order.
C6_TaggingRoundTrip ==
    (last.op = "text_to_bio" /\ MarkerFree) =>
        /\ Len(bio) = Len(last.arg)
        /\ Regroup([p \in 1..Len(bio) |-> bio[p][2]], 1, <<>>) = Triples(entities)

\* C7: add_word("") raises no error and leaves the whole automaton unchanged.
C7_EmptyWordIsNoOp ==
    [][(last'.op = "add_word" /\ last'.arg = <<>>) => (root' = root /\ err' = "none")]_vars

\* C8: after any number of searches that return on a compiled automaton, every
\* node's keys and failure reference are what the add_word / build_fail calls alone
\* produce, and the last result is the result of that search on the automaton
\* freshly built by these calls.
C8_SearchDoesNotMutate ==
    (Compiled /\ last.op = "search" /\ err = "none") =>
        /\ root = FreshlyBuilt
        /\ matches = search(FreshlyBuilt, last.arg).results

\* C8 witness: a search on a compiled automaton with a non-root failure reference
\* has followed '.get' lookups and returned matches.
C8_Witness ==
    /\ Compiled /\ last.op = "search" /\ err = "none"
    /\ Len(last.arg) = MaxText
    /\ Len(matches) >= 2
    /\ \E n \in DOMAIN root.fail : root.fail[n] # RootNode

LongestSuffixNode(G, n) ==
    LET S == {k \in 1..Len(n) : SubSeq(n, k + 1, Len(n)) \in Nodes(G)}
    IN  SubSeq(n, SetMin(S) + 1, Len(n))

\* C9: after build_fail on a trie of non-empty patterns every non-root node has a
\* failure reference, to a node of strictly smaller depth, whose path is the longest
\* proper suffix of the node's path that is a path from the root.
C9_FailureLinks ==
    (Compiled /\ <<>> \notin Patterns) =>
        \A n \in Nodes(root) \ {RootNode} :
            /\ HasKey(root, n, FAIL)
            /\ n \in DOMAIN root.fail
            /\ Len(root.fail[n]) < Len(n)
            /\ root.fail[n] = LongestSuffixNode(root, n)

\* C10: on a compiled automaton (here: of ordinary patterns) the cursor of search is,
\* after each character, the root or a trie node, never the end-of-word marker, and
\* search raises no error.
C10_MarkerNeverFollowed ==
    (Compiled /\ last.op = "search" /\ MarkerFree) =>
        /\ err = "none"
        /\ \A k \in 1..Len(cursors) : cursors[k] \in Nodes(root)

\* ---- what does hold of the code when no pattern is empty or holds "#" ----
\* the statement of C5, for dictionaries of ordinary patterns (checked under Spec)
InsertionOrderIrrelevantIfMarkerFree ==
    (last.op = "recognize_entities" /\ DistinctPatterns /\ MarkerFree) =>
        \A f \in Orders : Outcome(f, last.arg) = [err |-> err, entities |-> entities]

\* the statement of C9, for tries of ordinary patterns (checked under SpecAC)
FailureLinksIfMarkerFree ==
    (Compiled /\ MarkerFree) =>
        \A n \in Nodes(root) \ {RootNode} :
            /\ HasKey(root, n, FAIL)
            /\ n \in DOMAIN root.fail
            /\ Len(root.fail[n]) < Len(n)
            /\ root.fail[n] = LongestSuffixNode(root, n)

====
